---- MODULE Spec2Model ----
(***************************************************************************)
(* A model of ai-artifact-provenance-recorder (src/main.py): the           *)
(* ProvenanceRecorder class (load, add_build_step, calculate_hash,         *)
(* save_provenance) and the command-line entry point main.                 *)
(*                                                                         *)
(* Python values are tagged records (None, str, list, dict); a str is a    *)
(* sequence of tokens, so that the empty string is <<>> and string         *)
(* concatenation is \o.  JSON documents are a second tagged form, and      *)
(* json.dump / json.load are the conversions between the two.              *)
(***************************************************************************)
EXTENDS Integers, Sequences, FiniteSets, TLC

VARIABLES
    clock,      \* the wall clock read by datetime.utcnow()
    artifacts,  \* the artifact files: path -> NoFile or the bytes of the file
    file,       \* the provenance file on disk
    pc,         \* per process: where the invocation (or the API client) stands
    args,       \* per process: the parsed command line
    recorder,   \* per process: the ProvenanceRecorder object (NoRecorder before __init__)
    exit,       \* per process: the exit status (NotExited while running)
    runs,       \* invocations started so far
    calls,      \* calls the client of the class made so far (SpecAPI)
    \* history variables, read only by the properties
    fileBefore, \* per process: the provenance file when the invocation started
    loadedFrom, \* per process: the provenance file as __init__ found it
    loadedData, \* per process: provenance_data as __init__ left it
    log,        \* per process: the calls made, in order, with inputs and outcome
    lastSaved,  \* the record the latest completed save wrote (NoSave: none since the file changed)
    lastWriter  \* the process whose save_provenance completed last (0: none)

vars == <<clock, artifacts, file, pc, args, recorder, exit, runs, calls,
          fileBefore, loadedFrom, loadedData, log, lastSaved, lastWriter>>

-----------------------------------------------------------------------------
(* Bounds of the model *)

MaxClock == 1
MaxRuns == 1
MaxCalls == 3

Procs == {1, 2}
Paths == {"foo.bin", "bar.bin"}
Contents == {"hello", "bye"}
Commands == {"make"}
Versions == {"1.0"}
Algorithms == {"sha256", "md5", "crc32"}

-----------------------------------------------------------------------------
(* Python values *)

PyNone == [t |-> "None"]
PyStr(s) == [t |-> "str", v |-> s]
PyList(s) == [t |-> "list", v |-> s]
PyDict(f) == [t |-> "dict", v |-> f]

\* bool(v) for None and str: None and "" are falsy (lines 60 and 151)
Truthy(v) == IF v.t = "str" THEN Len(v.v) > 0 ELSE v.t # "None"

HasKey(d, k) == d.t = "dict" /\ k \in DOMAIN d.v

\* d[k] = val on a dict: the key is added when absent
DictSet(f, k, val) == [x \in (DOMAIN f) \cup {k} |-> IF x = k THEN val ELSE f[x]]

\* datetime.utcnow().isoformat() + "Z"
Utcnow(now) == PyStr(<<"iso", now>> \o <<"Z">>)

\* hashlib: the names hashlib.new accepts
Constructible == {"sha256", "md5"}
\* hasher.hexdigest() over the whole content, read chunk by chunk
HexDigest(algorithm, content) == PyStr(<<"hex", algorithm, content>>)

-----------------------------------------------------------------------------
(* JSON *)

RECURSIVE JsonEncode(_)
RECURSIVE JsonDecode(_)
RECURSIVE JsonSize(_, _)
RECURSIVE SumOver(_, _)

\* the sum of f over the set S
SumOver(S, f) ==
    IF S = {} THEN 0
    ELSE LET x == CHOOSE y \in S : TRUE IN f[x] + SumOver(S \ {x}, f)

JNull == [j |-> "null"]
JString(s) == [j |-> "string", s |-> s]
JArray(items) == [j |-> "array", items |-> items]
JObject(members) == [j |-> "object", members |-> members]

\* json.dump(obj, f, indent=4): the document written for a Python value
JsonEncode(v) ==
    CASE v.t = "None" -> JNull
      [] v.t = "str"  -> JString(v.v)
      [] v.t = "list" -> JArray([i \in DOMAIN v.v |-> JsonEncode(v.v[i])])
      [] v.t = "dict" -> JObject([k \in DOMAIN v.v |-> JsonEncode(v.v[k])])

\* json.load(f): the Python value of a document
JsonDecode(d) ==
    CASE d.j = "null"   -> PyNone
      [] d.j = "string" -> PyStr(d.s)
      [] d.j = "array"  -> PyList([i \in DOMAIN d.items |-> JsonDecode(d.items[i])])
      [] d.j = "object" -> PyDict([k \in DOMAIN d.members |-> JsonDecode(d.members[k])])

\* len() of the strings the model uses, token by token
TokenLen(tok) ==
    CASE tok = "foo.bin" -> 7 [] tok = "bar.bin" -> 7
      [] tok = "make" -> 4 [] tok = "gcc" -> 3
      [] tok = "1.0" -> 3 [] tok = "11.2" -> 4
      [] tok = "sha256" -> 6 [] tok = "md5" -> 3
      [] tok = "Z" -> 1

\* characters of a str: an isoformat() timestamp has 26, a hexdigest two per byte
StrLen(s) ==
    IF Len(s) = 0 THEN 0
    ELSE IF s[1] = "iso" THEN 26 + TokenLen(s[3])
    ELSE IF s[1] = "hex" THEN (IF s[2] = "sha256" THEN 64 ELSE 32)
    ELSE TokenLen(s[1])

KeyLen(k) ==
    CASE k = "artifact" -> 8 [] k = "created_at" -> 10 [] k = "build_steps" -> 11
      [] k = "artifact_hash" -> 13 [] k = "command" -> 7 [] k = "executed_at" -> 11
      [] k = "version" -> 7 [] k = "algorithm" -> 9 [] k = "hash" -> 4

\* characters json.dump(..., indent=4) writes for a document nested depth deep
JsonSize(d, depth) ==
    CASE d.j = "null"   -> 4
      [] d.j = "string" -> 2 + StrLen(d.s)
      [] d.j = "array"  ->
            IF DOMAIN d.items = {} THEN 2
            ELSE 2 + SumOver(DOMAIN d.items,
                     [i \in DOMAIN d.items |->
                        2 + 4 * (depth + 1) + JsonSize(d.items[i], depth + 1)])
                   + 4 * depth
      [] d.j = "object" ->
            IF DOMAIN d.members = {} THEN 2
            ELSE 2 + SumOver(DOMAIN d.members,
                     [k \in DOMAIN d.members |->
                        2 + 4 * (depth + 1) + KeyLen(k) + 4
                          + JsonSize(d.members[k], depth + 1)])
                   + 4 * depth

-----------------------------------------------------------------------------
(* The provenance file *)

\* no file at the path, for an artifact as for the provenance file
NoFile == ""
Absent == [kind |-> "absent"]
\* a file of length 0, as open(..., "w") leaves it
Empty == [kind |-> "empty"]
\* size characters of text that is not a JSON document
Malformed(size) == [kind |-> "malformed", size |-> size]
\* bytes that do not decode in the default text encoding
Binary == [kind |-> "binary"]
Json(doc) == [kind |-> "json", doc |-> doc]

-----------------------------------------------------------------------------
(* ProvenanceRecorder *)

NoRecorder == [built |-> FALSE]
NotExited == -1
NoSave == [t |-> "nosave"]

\* __init__, lines 27-34: the record before load_existing_provenance
FreshData(artifact_path, now) ==
    PyDict([artifact      |-> PyStr(<<artifact_path>>),
            created_at    |-> Utcnow(now),
            build_steps   |-> PyList(<<>>),
            artifact_hash |-> PyNone])

\* load_existing_provenance: oserr is open() failing (permission denied, a directory)
LoadExisting(f, data, oserr) ==
    IF f.kind = "absent" THEN [raised |-> "none", warned |-> FALSE, data |-> data]
    ELSE IF oserr THEN [raised |-> "OSError", warned |-> FALSE, data |-> data]
    ELSE CASE f.kind = "json" ->
                [raised |-> "none", warned |-> FALSE, data |-> JsonDecode(f.doc)]
           [] f.kind \in {"empty", "malformed"} ->
                [raised |-> "none", warned |-> TRUE, data |-> data]
           [] f.kind = "binary" ->
                [raised |-> "UnicodeDecodeError", warned |-> FALSE, data |-> data]

\* the step dict of add_build_step, lines 56-61
BuildStep(command, version, now) ==
    LET step == [command |-> command, executed_at |-> Utcnow(now)]
    IN  PyDict(IF Truthy(version) THEN DictSet(step, "version", version) ELSE step)

\* add_build_step as it would be if it skipped a command it already holds
AddBuildStep_Dedup(data, command, version, now) ==
    IF data.t # "dict" THEN [raised |-> "TypeError", data |-> data]
    ELSE IF "build_steps" \notin DOMAIN data.v THEN [raised |-> "KeyError", data |-> data]
    ELSE IF data.v.build_steps.t # "list" THEN [raised |-> "AttributeError", data |-> data]
    ELSE IF \E i \in DOMAIN data.v.build_steps.v :
               data.v.build_steps.v[i].v.command = command
      THEN [raised |-> "none", data |-> data]
    ELSE [raised |-> "none",
          data |-> PyDict([data.v EXCEPT !.build_steps =
                     PyList(Append(@.v, BuildStep(command, version, now)))])]

\* add_build_step
AddBuildStep(data, command, version, now) ==
    IF data.t # "dict" THEN [raised |-> "TypeError", data |-> data]
    ELSE IF "build_steps" \notin DOMAIN data.v THEN [raised |-> "KeyError", data |-> data]
    ELSE IF data.v.build_steps.t # "list" THEN [raised |-> "AttributeError", data |-> data]
    ELSE [raised |-> "none",
          data |-> PyDict([data.v EXCEPT !.build_steps =
                     PyList(Append(@.v, BuildStep(command, version, now)))])]

\* calculate_hash as it would be if it kept a hash the record already has
CalculateHash_KeepFirst(data, content, algorithm, ioerr) ==
    IF content = NoFile THEN [raised |-> "FileNotFoundError", data |-> data]
    ELSE IF algorithm \notin Constructible THEN [raised |-> "ValueError", data |-> data]
    ELSE IF ioerr THEN [raised |-> "OSError", data |-> data]
    ELSE IF data.t # "dict" THEN [raised |-> "TypeError", data |-> data]
    ELSE IF "artifact_hash" \in DOMAIN data.v /\ data.v.artifact_hash.t = "dict"
      THEN [raised |-> "none", data |-> data]
    ELSE [raised |-> "none",
          data |-> PyDict(DictSet(data.v, "artifact_hash",
                     PyDict([algorithm |-> PyStr(<<algorithm>>),
                             hash      |-> HexDigest(algorithm, content)])))]

\* calculate_hash: content is the artifact file, ioerr a failing read
CalculateHash(data, content, algorithm, ioerr) ==
    IF content = NoFile THEN [raised |-> "FileNotFoundError", data |-> data]
    ELSE IF algorithm \notin Constructible THEN [raised |-> "ValueError", data |-> data]
    ELSE IF ioerr THEN [raised |-> "OSError", data |-> data]
    ELSE IF data.t # "dict" THEN [raised |-> "TypeError", data |-> data]
    ELSE [raised |-> "none",
          data |-> PyDict(DictSet(data.v, "artifact_hash",
                     PyDict([algorithm |-> PyStr(<<algorithm>>),
                             hash      |-> HexDigest(algorithm, content)])))]

\* save_provenance, line 101: open(..., "w") truncates the file it opens
OpenForWrite(f, oserr) ==
    IF oserr THEN [raised |-> "OSError", file |-> f]
    ELSE [raised |-> "none", file |-> Empty]

\* the file after text is written at offset 0 of f, the position of a descriptor
\* opened with "w": what f holds beyond the text's length stays
WriteAtStart(f, doc) ==
    LET old == CASE f.kind = "json" -> JsonSize(f.doc, 0)
                 [] f.kind = "malformed" -> f.size
                 [] OTHER -> 0
    IN  IF JsonSize(doc, 0) >= old THEN Json(doc) ELSE Malformed(old)

\* json.dump as it would be if it left out the keys whose value is None
DumpTo_SkipNone(f, data, ioerr) ==
    IF ioerr THEN [raised |-> "OSError", file |-> f]
    ELSE IF data.t # "dict" THEN [raised |-> "none", file |-> WriteAtStart(f, JsonEncode(data))]
    ELSE LET kept == {k \in DOMAIN data.v : data.v[k].t # "None"} IN
         [raised |-> "none",
          file |-> WriteAtStart(f, JsonEncode(PyDict([k \in kept |-> data.v[k]])))]

\* save_provenance, line 102: json.dump into the opened file, flushed when the
\* with block closes it; ioerr is that write failing (disk full), nothing written
DumpTo(f, data, ioerr) ==
    IF ioerr THEN [raised |-> "OSError", file |-> f]
    ELSE [raised |-> "none", file |-> WriteAtStart(f, JsonEncode(data))]

-----------------------------------------------------------------------------
(* State *)

Unread == [kind |-> "unread"]
NoArgs == [artifact_path |-> "", command |-> PyNone, version |-> PyNone,
           hash_algorithm |-> ""]

\* a provenance file as an earlier run left it: one versioned step and a sha256 hash
EarlierRecord ==
    CalculateHash(
        AddBuildStep(FreshData("foo.bin", 0), PyStr(<<"gcc">>), PyStr(<<"11.2">>), 0).data,
        "hello", "sha256", FALSE).data

\* what the provenance file may hold when the tool is run: nothing, text that is
\* no JSON, bytes that are no text, JSON that is no record, an earlier run's record
InitialFiles ==
    { Absent, Malformed(1), Binary, Json(JArray(<<>>)), Json(JObject(<<>>)),
      Json(JsonEncode(EarlierRecord)) }

OptStr(S) == {PyNone, PyStr(<<>>)} \cup {PyStr(<<x>>) : x \in S}

\* argparse, lines 119-133: --command and --version default to None
ArgSpace ==
    [artifact_path : Paths, command : OptStr(Commands), version : OptStr(Versions),
     hash_algorithm : Algorithms]

Init ==
    /\ clock = 0
    /\ artifacts = [path \in Paths |-> IF path = "foo.bin" THEN "hello" ELSE NoFile]
    /\ file \in InitialFiles
    /\ pc = [p \in Procs |-> "idle"]
    /\ args = [p \in Procs |-> NoArgs]
    /\ recorder = [p \in Procs |-> NoRecorder]
    /\ exit = [p \in Procs |-> NotExited]
    /\ runs = 0
    /\ calls = 0
    /\ fileBefore = [p \in Procs |-> Unread]
    /\ loadedFrom = [p \in Procs |-> Unread]
    /\ loadedData = [p \in Procs |-> PyNone]
    /\ log = [p \in Procs |-> <<>>]
    /\ lastSaved = NoSave
    /\ lastWriter = 0

-----------------------------------------------------------------------------
(* The environment *)

\* time passes between two reads of the clock
Tick ==
    /\ clock < MaxClock
    /\ clock' = clock + 1
    /\ UNCHANGED <<artifacts, file, pc, args, recorder, exit, runs, calls,
                   fileBefore, loadedFrom, loadedData, log, lastSaved, lastWriter>>

\* the build (or anyone) rewrites or deletes foo.bin, or builds it again
EnvArtifact ==
    /\ \E c \in Contents \cup {NoFile} :
          /\ artifacts["foo.bin"] # c
          /\ artifacts' = [artifacts EXCEPT !["foo.bin"] = c]
    /\ UNCHANGED <<clock, file, pc, args, recorder, exit, runs, calls,
                   fileBefore, loadedFrom, loadedData, log, lastSaved, lastWriter>>

-----------------------------------------------------------------------------
(* main, one action per statement that reads or writes the world *)

Data(p) == recorder[p].provenance_data

Logged(p, entry) == log' = [log EXCEPT ![p] = Append(@, entry)]

\* sys.exit(1) from either handler of main, lines 158-163
Abort(p) ==
    /\ pc' = [pc EXCEPT ![p] = "done"]
    /\ exit' = [exit EXCEPT ![p] = 1]

\* lines 141-142: a new process parses its command line, one of A
StartWith(p, A) ==
    /\ runs' = runs + 1
    /\ \E a \in A : args' = [args EXCEPT ![p] = a]
    /\ pc' = [pc EXCEPT ![p] = "check"]
    /\ recorder' = [recorder EXCEPT ![p] = NoRecorder]
    /\ exit' = [exit EXCEPT ![p] = NotExited]
    /\ fileBefore' = [fileBefore EXCEPT ![p] = file]
    /\ loadedFrom' = [loadedFrom EXCEPT ![p] = Unread]
    /\ loadedData' = [loadedData EXCEPT ![p] = PyNone]
    /\ log' = [log EXCEPT ![p] = <<>>]
    /\ UNCHANGED <<clock, artifacts, file, calls, lastSaved, lastWriter>>

\* the tool is run, and run again once the run before has exited
Start(p) ==
    /\ pc[p] \in {"idle", "done"}
    /\ runs < MaxRuns
    /\ StartWith(p, ArgSpace)

\* main as it would be without the validation of lines 146-147
CheckArtifact_Unvalidated(p) ==
    /\ pc[p] = "check"
    /\ Logged(p, [op |-> "exists", found |-> artifacts[args[p].artifact_path] # NoFile])
    /\ pc' = [pc EXCEPT ![p] = "init"]
    /\ UNCHANGED exit
    /\ UNCHANGED <<clock, artifacts, file, args, recorder, runs, calls,
                   fileBefore, loadedFrom, loadedData, lastSaved, lastWriter>>

\* lines 146-147: input validation
CheckArtifact(p) ==
    /\ pc[p] = "check"
    /\ Logged(p, [op |-> "exists", found |-> artifacts[args[p].artifact_path] # NoFile])
    /\ IF artifacts[args[p].artifact_path] = NoFile
         THEN Abort(p)
         ELSE /\ pc' = [pc EXCEPT ![p] = "init"]
              /\ UNCHANGED exit
    /\ UNCHANGED <<clock, artifacts, file, args, recorder, runs, calls,
                   fileBefore, loadedFrom, loadedData, lastSaved, lastWriter>>

\* line 149: ProvenanceRecorder(args.artifact_path, args.provenance_file)
Construct(p) ==
    /\ pc[p] = "init"
    /\ \E oserr \in BOOLEAN :
         LET r == LoadExisting(file, FreshData(args[p].artifact_path, clock), oserr) IN
         /\ Logged(p, [op |-> "load", raised |-> r.raised, warned |-> r.warned])
         /\ loadedFrom' = [loadedFrom EXCEPT ![p] = file]
         /\ IF r.raised = "none"
              THEN /\ recorder' = [recorder EXCEPT ![p] =
                          [built |-> TRUE, artifact_path |-> args[p].artifact_path,
                           provenance_data |-> r.data]]
                   /\ loadedData' = [loadedData EXCEPT ![p] = r.data]
                   /\ pc' = [pc EXCEPT ![p] = "step"]
                   /\ UNCHANGED exit
              ELSE /\ Abort(p)
                   /\ UNCHANGED <<recorder, loadedData>>
    /\ UNCHANGED <<clock, artifacts, file, args, runs, calls, fileBefore,
                   lastSaved, lastWriter>>

\* lines 151-152
MaybeAddStep(p) ==
    /\ pc[p] = "step"
    /\ IF Truthy(args[p].command)
         THEN LET r == AddBuildStep(Data(p), args[p].command, args[p].version, clock) IN
              /\ Logged(p, [op |-> "add_build_step", raised |-> r.raised,
                            command |-> args[p].command, version |-> args[p].version,
                            now |-> clock])
              /\ IF r.raised = "none"
                   THEN /\ recorder' = [recorder EXCEPT ![p].provenance_data = r.data]
                        /\ pc' = [pc EXCEPT ![p] = "hash"]
                        /\ UNCHANGED exit
                   ELSE /\ Abort(p)
                        /\ UNCHANGED recorder
         ELSE /\ pc' = [pc EXCEPT ![p] = "hash"]
              /\ UNCHANGED <<recorder, exit, log>>
    /\ UNCHANGED <<clock, artifacts, file, args, runs, calls,
                   fileBefore, loadedFrom, loadedData, lastSaved, lastWriter>>

\* line 154
Hash(p) ==
    /\ pc[p] = "hash"
    /\ \E ioerr \in BOOLEAN :
         LET content == artifacts[recorder[p].artifact_path]
             r == CalculateHash(Data(p), content, args[p].hash_algorithm, ioerr) IN
         /\ Logged(p, [op |-> "calculate_hash", raised |-> r.raised,
                       algorithm |-> args[p].hash_algorithm, content |-> content])
         /\ IF r.raised = "none"
              THEN /\ recorder' = [recorder EXCEPT ![p].provenance_data = r.data]
                   /\ pc' = [pc EXCEPT ![p] = "save"]
                   /\ UNCHANGED exit
              ELSE /\ Abort(p)
                   /\ UNCHANGED recorder
    /\ UNCHANGED <<clock, artifacts, file, args, runs, calls,
                   fileBefore, loadedFrom, loadedData, lastSaved, lastWriter>>

\* line 156, first half: save_provenance opens the file for writing
SaveOpen(p) ==
    /\ pc[p] = "save"
    /\ \E oserr \in BOOLEAN :
         LET r == OpenForWrite(file, oserr) IN
         /\ file' = r.file
         /\ Logged(p, [op |-> "open", raised |-> r.raised])
         /\ IF r.raised = "none"
              THEN /\ pc' = [pc EXCEPT ![p] = "write"]
                   /\ lastSaved' = NoSave
                   /\ UNCHANGED exit
              ELSE /\ Abort(p)
                   /\ UNCHANGED lastSaved
    /\ UNCHANGED <<clock, artifacts, args, recorder, runs, calls,
                   fileBefore, loadedFrom, loadedData, lastWriter>>

\* line 156, second half: json.dump and close, then main returns and the process exits 0
SaveWrite(p) ==
    /\ pc[p] = "write"
    /\ \E ioerr \in BOOLEAN :
         LET r == DumpTo(file, Data(p), ioerr) IN
         /\ file' = r.file
         /\ Logged(p, [op |-> "dump", raised |-> r.raised])
         /\ IF r.raised = "none"
              THEN /\ pc' = [pc EXCEPT ![p] = "done"]
                   /\ exit' = [exit EXCEPT ![p] = 0]
                   /\ lastSaved' = Data(p)
                   /\ lastWriter' = p
              ELSE /\ Abort(p)
                   /\ UNCHANGED <<lastSaved, lastWriter>>
    /\ UNCHANGED <<clock, artifacts, args, recorder, runs, calls,
                   fileBefore, loadedFrom, loadedData>>

\* one invocation of main after another
Next ==
    \/ Tick
    \/ EnvArtifact
    \/ Start(1)
    \/ CheckArtifact(1)
    \/ Construct(1)
    \/ MaybeAddStep(1)
    \/ Hash(1)
    \/ SaveOpen(1)
    \/ SaveWrite(1)

Spec == Init /\ [][Next]_vars

-----------------------------------------------------------------------------
(* Two invocations at once on the same provenance file *)

\* the command lines of the racing invocations: one artifact, two algorithms,
\* --version given in full or not at all
RaceArgs ==
    {a \in ArgSpace : /\ a.artifact_path = "foo.bin"
                      /\ a.hash_algorithm \in {"sha256", "crc32"}
                      /\ a.version # PyStr(<<>>)}

StartRace(p) ==
    /\ pc[p] = "idle"
    /\ StartWith(p, RaceArgs)

RaceNext ==
    \/ Tick
    \/ \E p \in Procs :
         \/ StartRace(p)
         \/ CheckArtifact(p)
         \/ Construct(p)
         \/ MaybeAddStep(p)
         \/ Hash(p)
         \/ SaveOpen(p)
         \/ SaveWrite(p)

SpecRace == Init /\ [][RaceNext]_vars

-----------------------------------------------------------------------------
(* A client of the class: the constructor and the methods of ProvenanceRecorder
   called in any order. An exception a call raises reaches the client, which
   goes on; the log keeps the method calls that returned. *)

ApiFrame == UNCHANGED <<clock, artifacts, args, exit, runs, fileBefore, lastWriter>>

\* ProvenanceRecorder(artifact_path)
ApiNew(p) ==
    /\ pc[p] \in {"idle", "api"}
    /\ calls < MaxCalls
    /\ calls' = calls + 1
    /\ \E path \in Paths, oserr \in BOOLEAN :
         LET r == LoadExisting(file, FreshData(path, clock), oserr) IN
         IF r.raised = "none"
           THEN /\ recorder' = [recorder EXCEPT ![p] =
                       [built |-> TRUE, artifact_path |-> path, provenance_data |-> r.data]]
                /\ loadedFrom' = [loadedFrom EXCEPT ![p] = file]
                /\ loadedData' = [loadedData EXCEPT ![p] = r.data]
                /\ log' = [log EXCEPT ![p] = <<>>]
                /\ pc' = [pc EXCEPT ![p] = "api"]
           ELSE UNCHANGED <<recorder, loadedFrom, loadedData, log, pc>>
    /\ UNCHANGED <<file, lastSaved>>
    /\ ApiFrame

\* one more method call on the recorder
Call(p) ==
    /\ pc[p] = "api"
    /\ calls < MaxCalls
    /\ calls' = calls + 1

\* recorder.add_build_step(command, version)
ApiAddBuildStep(p) ==
    /\ Call(p)
    /\ \E command \in OptStr(Commands) \ {PyNone}, version \in OptStr(Versions) :
         LET r == AddBuildStep(Data(p), command, version, clock) IN
         /\ recorder' = [recorder EXCEPT ![p].provenance_data = r.data]
         /\ IF r.raised = "none"
              THEN Logged(p, [op |-> "add_build_step", raised |-> r.raised,
                              command |-> command, now |-> clock,
                              step |-> r.data.v.build_steps.v[
                                         Len(r.data.v.build_steps.v)]])
              ELSE UNCHANGED log
    /\ UNCHANGED <<file, pc, loadedFrom, loadedData, lastSaved>>
    /\ ApiFrame

\* recorder.calculate_hash(algorithm)
ApiCalculateHash(p) ==
    /\ Call(p)
    /\ \E algorithm \in Algorithms, ioerr \in BOOLEAN :
         LET content == artifacts[recorder[p].artifact_path]
             r == CalculateHash(Data(p), content, algorithm, ioerr) IN
         /\ recorder' = [recorder EXCEPT ![p].provenance_data = r.data]
         /\ IF r.raised = "none"
              THEN Logged(p, [op |-> "calculate_hash", raised |-> r.raised,
                              algorithm |-> algorithm, content |-> content])
              ELSE UNCHANGED log
    /\ UNCHANGED <<file, pc, loadedFrom, loadedData, lastSaved>>
    /\ ApiFrame

\* recorder.save_provenance()
ApiSave(p) ==
    /\ Call(p)
    /\ \E oserr \in BOOLEAN, ioerr \in BOOLEAN :
         LET o == OpenForWrite(file, oserr)
             d == DumpTo(o.file, Data(p), ioerr) IN
         IF o.raised # "none"
           THEN UNCHANGED <<file, lastSaved>>
           ELSE /\ file' = d.file
                /\ lastSaved' = IF d.raised = "none" THEN Data(p) ELSE NoSave
    /\ UNCHANGED <<pc, recorder, loadedFrom, loadedData, log>>
    /\ ApiFrame

ApiNext ==
    \/ Tick
    \/ EnvArtifact
    \/ ApiNew(1)
    \/ ApiAddBuildStep(1)
    \/ ApiCalculateHash(1)
    \/ ApiSave(1)

\* the client holds a recorder for foo.bin, constructed at time 0 where the
\* provenance file let it
InitAPI ==
    /\ clock = 0
    /\ artifacts = [path \in Paths |-> IF path = "foo.bin" THEN "hello" ELSE NoFile]
    /\ file \in InitialFiles
    /\ LET r == LoadExisting(file, FreshData("foo.bin", 0), FALSE)
           ok == r.raised = "none"
       IN  /\ pc = [p \in Procs |-> IF p = 1 /\ ok THEN "api" ELSE "idle"]
           /\ recorder = [p \in Procs |-> IF p = 1 /\ ok
                             THEN [built |-> TRUE, artifact_path |-> "foo.bin",
                                   provenance_data |-> r.data]
                             ELSE NoRecorder]
           /\ loadedFrom = [p \in Procs |-> IF p = 1 /\ ok THEN file ELSE Unread]
           /\ loadedData = [p \in Procs |-> IF p = 1 /\ ok THEN r.data ELSE PyNone]
    /\ args = [p \in Procs |-> NoArgs]
    /\ exit = [p \in Procs |-> NotExited]
    /\ runs = 0
    /\ calls = 0
    /\ fileBefore = [p \in Procs |-> Unread]
    /\ log = [p \in Procs |-> <<>>]
    /\ lastSaved = NoSave
    /\ lastWriter = 0

SpecAPI == InitAPI /\ [][ApiNext]_vars

-----------------------------------------------------------------------------
(* Properties *)

\* a record with the four keys of the data model, build_steps a list
WellFormed(d) ==
    /\ d.t = "dict"
    /\ {"artifact", "created_at", "build_steps", "artifact_hash"} \subseteq DOMAIN d.v
    /\ d.v.build_steps.t = "list"

Steps(d) == d.v.build_steps.v

IsPrefix(old, new) == Len(old) <= Len(new) /\ SubSeq(new, 1, Len(old)) = old

\* the calls of one method in a log
CallsOf(l, op) == SelectSeq(l, LAMBDA e : e.op = op)

Succeeded(p) == pc[p] = "done" /\ exit[p] = 0
Failed(p) == pc[p] = "done" /\ exit[p] = 1

\* the check of line 146 found no artifact
ArtifactMissing(p) ==
    /\ Len(log[p]) > 0
    /\ log[p][1].op = "exists"
    /\ ~log[p][1].found

\* C1: an invocation that has ended either completed, wrote the provenance file
\* and exited 0, or exited 1 with the provenance file exactly as it was when the
\* invocation started.
C1_NoPartialSuccess ==
    pc[1] = "done" =>
        \/ exit[1] = 0 /\ file = Json(JsonEncode(Data(1)))
        \/ exit[1] = 1 /\ file = fileBefore[1]

\* C2: once main has found the artifact path missing, the process has exited with
\* status 1, no recorder was constructed, nothing was loaded, appended, hashed or
\* saved, and the provenance file is as it was, whatever the other arguments.
C2_MissingArtifactAborts ==
    \A p \in Procs :
        ArtifactMissing(p) =>
            /\ Failed(p)
            /\ recorder[p] = NoRecorder
            /\ loadedFrom[p] = Unread
            /\ Len(log[p]) = 1
            /\ file = fileBefore[p]

\* an existing provenance file, a command and a version given, the artifact missing
C2_Witness ==
    /\ ArtifactMissing(1)
    /\ pc[1] = "done"
    /\ fileBefore[1].kind = "json"
    /\ args[1].command = PyStr(<<"make">>)
    /\ args[1].version = PyStr(<<"1.0">>)
    /\ args[1].hash_algorithm = "md5"

\* C3: when the provenance file is missing or is not valid JSON, and open() itself
\* did not fail, constructing the recorder raises nothing and leaves a fresh record:
\* the caller's artifact path, no build steps, no hash.
C3_LoadNeverFailsOnContent ==
    \A p \in Procs :
        ( /\ Len(log[p]) >= 2
          /\ log[p][2].op = "load"
          /\ log[p][2].raised # "OSError"
          /\ loadedFrom[p].kind \in {"absent", "empty", "malformed", "binary"} )
        => /\ log[p][2].raised = "none"
           /\ recorder[p] # NoRecorder
           /\ loadedData[p].t = "dict"
           /\ loadedData[p].v.artifact = PyStr(<<args[p].artifact_path>>)
           /\ loadedData[p].v.build_steps = PyList(<<>>)
           /\ loadedData[p].v.artifact_hash = PyNone

\* C4: the build steps of a recorder are the steps it loaded followed by one step
\* per add_build_step call that returned, in call order, each as it was when it
\* was appended (its command and timestamp those of its call): whatever
\* add_build_step, calculate_hash and save_provenance calls came in between.
C4_AppendOnly ==
    \A p \in Procs :
        (recorder[p] # NoRecorder /\ pc[p] = "api" /\ WellFormed(loadedData[p])) =>
            LET old == Steps(loadedData[p])
                adds == CallsOf(log[p], "add_build_step")
            IN  /\ WellFormed(Data(p))
                /\ Len(Steps(Data(p))) = Len(old) + Len(adds)
                /\ IsPrefix(old, Steps(Data(p)))
                /\ \A i \in 1..Len(adds) :
                      LET s == Steps(Data(p))[Len(old) + i] IN
                      /\ s = adds[i].step
                      /\ s.v.command = adds[i].command
                      /\ s.v.executed_at = Utcnow(adds[i].now)

\* three calls on a fresh record, at different times and with different commands
C4_Witness ==
    /\ pc[1] = "api"
    /\ loadedFrom[1] = Absent
    /\ Len(Steps(Data(1))) = 3
    /\ Steps(Data(1))[1].v.command = PyStr(<<"make">>)
    /\ Steps(Data(1))[2].v.command = PyStr(<<>>)
    /\ Steps(Data(1))[1].v.executed_at # Steps(Data(1))[3].v.executed_at
    /\ Len(CallsOf(log[1], "calculate_hash")) = 0

\* C5: a run that loaded a record an earlier run wrote, and succeeded, wrote a
\* file with the created_at it loaded and the steps it loaded first; given
\* --command and no --version it added exactly one step, which has no version.
C5_HistoryPreserved ==
    \A p \in Procs :
        ( /\ Succeeded(p)
          /\ loadedFrom[p].kind = "json"
          /\ WellFormed(loadedData[p])
          /\ file.kind = "json" )
        => LET written == JsonDecode(file.doc)
               old == Steps(loadedData[p])
           IN  /\ WellFormed(written)
               /\ written.v.created_at = loadedData[p].v.created_at
               /\ IsPrefix(old, Steps(written))
               /\ (args[p].command # PyNone /\ args[p].version = PyNone) =>
                     /\ Len(Steps(written)) = Len(old) + 1
                     /\ "version" \notin DOMAIN Steps(written)[Len(old) + 1].v

\* C6: once calculate_hash has returned on a recorder, artifact_hash is the
\* {algorithm, hash} of the latest such call, the record has the keys it was
\* loaded with and artifact_hash, and the keys other than the hash and the steps
\* hold what was loaded.
C6_HashOverwritten ==
    \A p \in Procs :
        LET hs == CallsOf(log[p], "calculate_hash") IN
        (recorder[p] # NoRecorder /\ pc[p] = "api" /\ Len(hs) > 0) =>
            LET last == hs[Len(hs)] IN
            /\ Data(p).t = "dict"
            /\ Data(p).v.artifact_hash =
                   PyDict([algorithm |-> PyStr(<<last.algorithm>>),
                           hash |-> HexDigest(last.algorithm, last.content)])
            /\ DOMAIN Data(p).v = (DOMAIN loadedData[p].v) \cup {"artifact_hash"}
            /\ \A k \in (DOMAIN loadedData[p].v) \ {"artifact_hash", "build_steps"} :
                  Data(p).v[k] = loadedData[p].v[k]

\* a record loaded with a sha256 hash, then hashed with md5 after the artifact changed
C6_Witness ==
    /\ pc[1] = "api"
    /\ WellFormed(loadedData[1])
    /\ loadedData[1].v.artifact_hash # PyNone
    /\ loadedData[1].v.artifact_hash.v.algorithm = PyStr(<<"sha256">>)
    /\ Len(CallsOf(log[1], "calculate_hash")) = 1
    /\ Data(1).v.artifact_hash.v.algorithm = PyStr(<<"md5">>)
    /\ Data(1).v.artifact_hash.v.hash = HexDigest("md5", "bye")

\* C7: a recorder constructed on the file a completed save_provenance wrote holds
\* the record that was saved.
C7_RoundTrip ==
    \A p \in Procs :
        ( /\ recorder[p] # NoRecorder
          /\ pc[p] = "api"
          /\ Len(log[p]) = 0
          /\ lastSaved # NoSave
          /\ loadedFrom[p] = file )
        => loadedData[p] = lastSaved

\* reloaded: a record with a versioned step, a step that has no version, and a hash
C7_Witness ==
    /\ pc[1] = "api"
    /\ Len(log[1]) = 0
    /\ lastSaved # NoSave
    /\ loadedFrom[1] = file
    /\ loadedData[1] = lastSaved
    /\ WellFormed(loadedData[1])
    /\ calls = MaxCalls
    /\ Len(Steps(loadedData[1])) = 2
    /\ "version" \in DOMAIN Steps(loadedData[1])[1].v
    /\ "version" \notin DOMAIN Steps(loadedData[1])[2].v
    /\ loadedData[1].v.artifact_hash # PyNone

\* C8: past lines 151-152, the record has one step more than was loaded exactly
\* when --command was supplied, and that step has a version field exactly when
\* --version was supplied; the empty string counts as supplied.
C8_StepIffCommand ==
    \A p \in Procs :
        (pc[p] = "hash" /\ WellFormed(loadedData[p])) =>
            LET old == Steps(loadedData[p])
                new == Steps(Data(p))
            IN  IF args[p].command = PyNone
                  THEN new = old
                  ELSE /\ Len(new) = Len(old) + 1
                       /\ IsPrefix(old, new)
                       /\ new[Len(new)].v.command = args[p].command
                       /\ "version" \in DOMAIN new[Len(new)].v <=> args[p].version # PyNone

\* the calls of a run up to its save, in the order of main
InOrder(l) ==
    LET ops == [i \in 1..Len(l) |-> l[i].op]
        tail == <<"calculate_hash", "open", "dump">>
    IN  \E n \in {2, 3} :
          /\ Len(ops) <= n + 3
          /\ ops = SubSeq(<<"exists", "load">> \o
                          (IF n = 3 THEN <<"add_build_step">> ELSE <<>>) \o tail,
                          1, Len(ops))

\* C9: a run saves at most once, after load, the optional append and a successful
\* calculate_hash, in that order; the file a successful run wrote has the hash of
\* that run, by the requested algorithm, and the run's step if --command was given.
C9_SavedOnceAtEnd ==
    \A p \in Procs :
        /\ (pc[p] \notin {"idle", "api"} /\ Len(log[p]) > 0) =>
              /\ InOrder(log[p])
              /\ \A i \in 1..Len(log[p]) :
                    log[p][i].op = "open" => log[p][i - 1].raised = "none"
        /\ (Succeeded(p) /\ file.kind = "json") =>
              LET written == JsonDecode(file.doc)
                  h == CallsOf(log[p], "calculate_hash")
              IN  /\ Len(h) = 1
                  /\ Len(CallsOf(log[p], "open")) = 1
                  /\ HasKey(written, "artifact_hash")
                  /\ written.v.artifact_hash =
                        PyDict([algorithm |-> PyStr(<<args[p].hash_algorithm>>),
                                hash |-> HexDigest(args[p].hash_algorithm, h[1].content)])
                  /\ args[p].command # PyNone =>
                        /\ HasKey(written, "build_steps")
                        /\ Len(CallsOf(log[p], "add_build_step")) = 1
                        /\ Len(Steps(written)) > 0
                        /\ Steps(written)[Len(Steps(written))].v.command = args[p].command

\* C10: when two invocations that loaded the same file state have both exited 0,
\* the file is the record of the one whose save completed last, and a step the
\* other appended is not in it.
C10_LastWriterWins ==
    ( /\ Succeeded(1)
      /\ Succeeded(2)
      /\ loadedFrom[1] = loadedFrom[2] )
    => /\ file = Json(JsonEncode(Data(lastWriter)))
       /\ WellFormed(Data(lastWriter)) =>
             Len(Steps(Data(lastWriter))) =
                 Len(Steps(loadedData[lastWriter]))
                   + Len(CallsOf(log[lastWriter], "add_build_step"))

====
